---- MODULE Spec2Model ----
(***************************************************************************)
(* notebooks/dagshub_setup.py: a top-to-bottom script that points the      *)
(* MLflow client at a DagsHub tracking server, binds the DagsHub project   *)
(* and logs one parameter and one metric inside `with mlflow.start_run()`. *)
(*                                                                         *)
(* The model follows the script statement by statement.  Every call into   *)
(* mlflow / dagshub either returns or raises; the script has no try/except *)
(* so a raised exception unwinds: outside the with-block it ends the       *)
(* process, inside the with-block it first runs the context manager's      *)
(* __exit__ (which ends the run) and then ends the process.  A logging     *)
(* call that raises records nothing.  The calls counted are the ones the   *)
(* script itself issues; what the libraries do inside a call is not part   *)
(* of the script.                                                          *)
(*                                                                         *)
(* The tracking server outlives the process, so the runs created by        *)
(* earlier executions of the script stay on it (variable runs) while the   *)
(* process-wide client state is fresh in each execution.                   *)
(***************************************************************************)
EXTENDS Integers, Sequences, FiniteSets

\* how many times the script is executed against the same tracking server
MaxExecutions == 3

VARIABLES
    pc,            \* the statement about to execute, or "done" / "failed"
    exc,           \* the call whose exception is propagating, or "none"
    tracking_uri,  \* process-wide tracking destination of the mlflow client
    binding,       \* <<arguments>> of the initialised DagsHub binding, else <<>>
    run,           \* index in runs of the run this execution opened, 0 if none
    calls,         \* the calls this execution has issued, in order
    runs,          \* the runs held by the tracking server
    executions     \* number of executions started so far

vars == <<pc, exc, tracking_uri, binding, run, calls, runs, executions>>

----------------------------------------------------------------------------
\* literals of the script

TrackingUri == "https://dagshub.com/dharsourav03/MLOPS-MINI-PROJECT-V3.mlflow"

InitArgs_mlflowOff ==
    [repo_owner |-> "dharsourav03", repo_name |-> "MLOPS-MINI-PROJECT-V3",
     mlflow |-> FALSE]

InitArgs ==
    [repo_owner |-> "dharsourav03", repo_name |-> "MLOPS-MINI-PROJECT-V3",
     mlflow |-> TRUE]

ParamArgs_swapped == [key |-> "value", value |-> "parameter name"]

ParamArgs == [key |-> "parameter name", value |-> "value"]

MetricArgs_zero == [key |-> "metric name", value |-> 0]

MetricArgs == [key |-> "metric name", value |-> 1]

----------------------------------------------------------------------------
\* control flow

\* statements lexically inside the with-block
InWith(op) == op \in {"log_param", "log_metric"}

\* a bare open/close pair: the exception leaves the block without __exit__
OnRaise_noScope(op) == "failed"

\* the exception is swallowed and the script carries on with the next line
OnRaise_swallow(op) ==
    CASE op = "set_tracking_uri" -> "init"
      [] op = "init"             -> "start_run"
      [] op = "start_run"        -> "log_param"
      [] op = "log_param"        -> "log_metric"
      [] OTHER                   -> "exit"

\* where control goes when call op raises: nothing catches it, so it leaves
\* the with-block through __exit__ if it is inside one, and ends the process
OnRaise(op) == IF InWith(op) THEN "exit" ELSE "failed"

\* ActiveRun.__exit__(exc_type, ...) ends the run FINISHED when the block
\* completed and FAILED when an exception left it
ExitStatus_alwaysFinished(e) == "FINISHED"

ExitStatus(e) == IF e = "none" THEN "FINISHED" ELSE "FAILED"

Call(op, args) == [op |-> op, args |-> args]

Terminal == {"done", "failed"}

\* the scope lifecycle of the run of the current execution
Scope ==
    IF run = 0 THEN "not-started"
    ELSE IF runs[run].status = "RUNNING" THEN "open" ELSE "finalized"

----------------------------------------------------------------------------
Init ==
    /\ pc = "set_tracking_uri"
    /\ exc = "none"
    /\ tracking_uri = "unset"
    /\ binding = <<>>
    /\ run = 0
    /\ calls = <<>>
    /\ runs = <<>>
    /\ executions = 1

\* line 4: mlflow.set_tracking_uri('https://dagshub.com/...mlflow')
set_tracking_uri ==
    /\ pc = "set_tracking_uri"
    /\ calls' = Append(calls, Call("set_tracking_uri", TrackingUri))
    /\ \E ok \in BOOLEAN :
         IF ok
         THEN /\ tracking_uri' = TrackingUri
              /\ pc' = "init"
              /\ exc' = exc
         ELSE /\ tracking_uri' = tracking_uri
              /\ pc' = OnRaise("set_tracking_uri")
              /\ exc' = "set_tracking_uri"
    /\ UNCHANGED <<binding, run, runs, executions>>

\* the script sets the destination a second time after binding the project
dagshub_init_setsAgain ==
    /\ pc = "init"
    /\ calls' = Append(Append(calls, Call("init", InitArgs)),
                       Call("set_tracking_uri", TrackingUri))
    /\ binding' = <<InitArgs>>
    /\ pc' = "start_run"
    /\ UNCHANGED <<exc, tracking_uri, run, runs, executions>>

\* lines 5-7: dagshub.init(repo_owner=..., repo_name=..., mlflow=True)
dagshub_init ==
    /\ pc = "init"
    /\ calls' = Append(calls, Call("init", InitArgs))
    /\ \E ok \in BOOLEAN :
         IF ok
         THEN /\ binding' = <<InitArgs>>
              /\ pc' = "start_run"
              /\ exc' = exc
         ELSE /\ binding' = binding
              /\ pc' = OnRaise("init")
              /\ exc' = "init"
    /\ UNCHANGED <<tracking_uri, run, runs, executions>>

\* line 9: with mlflow.start_run(): -- the call and __enter__
start_run ==
    /\ pc = "start_run"
    /\ calls' = Append(calls, Call("start_run", <<>>))
    /\ \E ok \in BOOLEAN :
         IF ok
         THEN /\ runs' = Append(runs, [exec |-> executions, status |-> "RUNNING",
                                       ends |-> 0, params |-> <<>>,
                                       metrics |-> <<>>])
              /\ run' = Len(runs) + 1
              /\ pc' = "log_param"
              /\ exc' = exc
         ELSE /\ runs' = runs
              /\ run' = run
              /\ pc' = OnRaise("start_run")
              /\ exc' = "start_run"
    /\ UNCHANGED <<tracking_uri, binding, executions>>

\* line 10: mlflow.log_param('parameter name', 'value')
log_param ==
    /\ pc = "log_param"
    /\ calls' = Append(calls, Call("log_param", ParamArgs))
    /\ \E ok \in BOOLEAN :
         IF ok /\ run # 0
         THEN /\ runs' = [runs EXCEPT ![run].params = Append(@, ParamArgs)]
              /\ pc' = "log_metric"
              /\ exc' = exc
         ELSE /\ runs' = runs
              /\ pc' = OnRaise("log_param")
              /\ exc' = "log_param"
    /\ UNCHANGED <<tracking_uri, binding, run, executions>>

\* line 11: mlflow.log_metric('metric name', 1)
log_metric ==
    /\ pc = "log_metric"
    /\ calls' = Append(calls, Call("log_metric", MetricArgs))
    /\ \E ok \in BOOLEAN :
         IF ok /\ run # 0
         THEN /\ runs' = [runs EXCEPT ![run].metrics = Append(@, MetricArgs)]
              /\ pc' = "exit"
              /\ exc' = exc
         ELSE /\ runs' = runs
              /\ pc' = OnRaise("log_metric")
              /\ exc' = "log_metric"
    /\ UNCHANGED <<tracking_uri, binding, run, executions>>

\* the block is left without ending the run
exit_run_skipped ==
    /\ pc = "exit"
    /\ pc' = IF exc = "none" THEN "done" ELSE "failed"
    /\ UNCHANGED <<exc, tracking_uri, binding, run, calls, runs, executions>>

\* leaving the with-block of line 9: __exit__ ends the run, and the
\* exception, if any, goes on propagating
exit_run ==
    /\ pc = "exit"
    /\ calls' = Append(calls, Call("__exit__", exc))
    /\ runs' = IF run = 0 THEN runs
               ELSE [runs EXCEPT ![run].status = ExitStatus(exc),
                                 ![run].ends = @ + 1]
    /\ pc' = IF exc = "none" THEN "done" ELSE "failed"
    /\ UNCHANGED <<exc, tracking_uri, binding, run, executions>>

\* the script is executed again: a fresh process, the same tracking server
Launch ==
    /\ pc \in Terminal
    /\ executions < MaxExecutions
    /\ executions' = executions + 1
    /\ pc' = "set_tracking_uri"
    /\ exc' = "none"
    /\ tracking_uri' = "unset"
    /\ binding' = <<>>
    /\ run' = 0
    /\ calls' = <<>>
    /\ UNCHANGED runs

\* the statements of one execution
Step ==
    \/ set_tracking_uri
    \/ dagshub_init
    \/ start_run
    \/ log_param
    \/ log_metric
    \/ exit_run

Next ==
    \/ Step
    \/ Launch

Spec == Init /\ [][Next]_vars

\* every call returns or raises, so a started process keeps taking steps
FairSpec == Spec /\ WF_vars(Step)

----------------------------------------------------------------------------
\* helpers of the properties

RunsOf(e) == {i \in DOMAIN runs : runs[i].exec = e}

CallsOf(op) == {i \in DOMAIN calls : calls[i].op = op}

Issued(op) == CallsOf(op) # {}

LogOps == {"log_param", "log_metric"}

ScopeRank(s) == CASE s = "not-started" -> 0 [] s = "open" -> 1 [] OTHER -> 2

StatusRank(s) == IF s = "RUNNING" THEN 1 ELSE 2

TheParam == [key |-> "parameter name", value |-> "value"]

TheMetric == [key |-> "metric name", value |-> 1]

TheBinding ==
    [repo_owner |-> "dharsourav03", repo_name |-> "MLOPS-MINI-PROJECT-V3",
     mlflow |-> TRUE]

----------------------------------------------------------------------------
\* C1 as stated: every finished execution has opened exactly one run, and
\* that run has been finalized exactly once and is not open.
C1_ExactlyOneRunEveryExecution ==
    pc \in Terminal =>
        /\ Cardinality(RunsOf(executions)) = 1
        /\ \A i \in RunsOf(executions) :
               runs[i].ends = 1 /\ runs[i].status # "RUNNING"

\* C1 amended: an execution opens at most one run, exactly one once
\* start_run has returned; no run is ever finalized twice; and when the
\* execution has ended, on whatever path (a failing log_param or log_metric
\* included), every run it opened has been finalized exactly once.
C1_OpenedRunFinalizedOnce ==
    /\ \A e \in 1..executions : Cardinality(RunsOf(e)) <= 1
    /\ run # 0 => RunsOf(executions) = {run}
    /\ pc \in {"log_param", "log_metric", "exit", "done"} => run # 0
    /\ \A i \in DOMAIN runs :
          /\ runs[i].ends <= 1
          /\ runs[i].ends = 0 <=> runs[i].status = "RUNNING"
          /\ (runs[i].exec < executions \/ pc \in Terminal) => runs[i].ends = 1

C1_Witness ==
    /\ pc = "failed"
    /\ exc = "log_metric"
    /\ run # 0
    /\ runs[run].ends = 1

\* C2: a step that issues log_param or log_metric is taken with the run
\* open, and leaves it open: none is issued before the run is opened or
\* after it is finalized.
C2_LogOnlyWhileOpen ==
    [][ (/\ Len(calls') = Len(calls) + 1
         /\ calls'[Len(calls')].op \in LogOps)
        => (/\ run # 0
            /\ run' = run
            /\ runs[run].status = "RUNNING"
            /\ runs'[run].status = "RUNNING") ]_vars

C2_Witness ==
    /\ Issued("log_param")
    /\ Issued("log_metric")
    /\ Scope = "open"

\* C3: the script calls set_tracking_uri exactly once per execution, as its
\* first call, hence before dagshub.init and never after it; once the call
\* has returned the destination stays the configured URL.
C3_UriSetOnceBeforeInit ==
    /\ Cardinality(CallsOf("set_tracking_uri")) <= 1
    /\ pc # "set_tracking_uri" => CallsOf("set_tracking_uri") = {1}
    /\ \A j \in CallsOf("init") :
          /\ Issued("set_tracking_uri")
          /\ \A i \in CallsOf("set_tracking_uri") : i < j
    /\ Issued("init") =>
          tracking_uri = "https://dagshub.com/dharsourav03/MLOPS-MINI-PROJECT-V3.mlflow"

C3_Witness ==
    /\ pc = "start_run"
    /\ Issued("init")
    /\ CallsOf("set_tracking_uri") = {1}

\* C4: a finalized run is FINISHED exactly when its block completed and
\* FAILED exactly when an exception left the block; hence a FINISHED run
\* holds both records.
C4_StatusFollowsExit ==
    /\ (run # 0 /\ runs[run].ends > 0) =>
          /\ exc = "none" => runs[run].status = "FINISHED"
          /\ exc # "none" => runs[run].status = "FAILED"
    /\ \A i \in DOMAIN runs :
          /\ runs[i].status = "FINISHED" =>
                Len(runs[i].params) = 1 /\ Len(runs[i].metrics) = 1

C4_Witness ==
    \E i, j \in DOMAIN runs :
        runs[i].status = "FINISHED" /\ runs[j].status = "FAILED"

\* C5 as stated: every finalized run holds exactly the one parameter record.
C5_OneParamInEveryFinalizedRun ==
    \A i \in DOMAIN runs : runs[i].ends > 0 => runs[i].params = <<TheParam>>

\* C5 amended: a run never holds more than one parameter record and the
\* record is ("parameter name", "value"); log_param is called exactly once
\* in every run; a finalized run holds exactly that record when log_param
\* returned (so every FINISHED run does).
C5_AtMostOneParam ==
    /\ \A i \in DOMAIN runs :
          /\ runs[i].params \in {<<>>, <<TheParam>>}
          /\ runs[i].status = "FINISHED" => runs[i].params = <<TheParam>>
    /\ \A i \in CallsOf("log_param") : calls[i].args = TheParam
    /\ (run # 0 /\ runs[run].ends > 0) =>
          /\ Cardinality(CallsOf("log_param")) = 1
          /\ exc # "log_param" => runs[run].params = <<TheParam>>

C5_Witness ==
    /\ pc = "done"
    /\ runs[run].params = <<TheParam>>
    /\ \E i \in DOMAIN runs : runs[i].ends > 0 /\ runs[i].params = <<>>

\* C6 as stated: every finalized run holds exactly the one metric record.
C6_OneMetricInEveryFinalizedRun ==
    \A i \in DOMAIN runs : runs[i].ends > 0 => runs[i].metrics = <<TheMetric>>

\* C6 amended: a run never holds more than one metric record and the
\* record is ("metric name", 1); a finalized run holds exactly that record
\* when log_metric returned (so every FINISHED run does) and none when
\* log_param raised; log_metric is called at most once, and not at all
\* when log_param raised.
C6_AtMostOneMetric ==
    /\ \A i \in DOMAIN runs :
          /\ runs[i].metrics \in {<<>>, <<TheMetric>>}
          /\ runs[i].status = "FINISHED" => runs[i].metrics = <<TheMetric>>
    /\ \A i \in CallsOf("log_metric") : calls[i].args = TheMetric
    /\ Cardinality(CallsOf("log_metric")) <= 1
    /\ exc = "log_param" => ~Issued("log_metric")
    /\ (run # 0 /\ runs[run].ends > 0) =>
          /\ exc = "none" => runs[run].metrics = <<TheMetric>>
          /\ exc = "log_param" => runs[run].metrics = <<>>

C6_Witness ==
    /\ pc = "done"
    /\ runs[run].metrics = <<TheMetric>>
    /\ \E i \in DOMAIN runs : runs[i].ends > 0 /\ runs[i].metrics = <<>>

\* C7: dagshub.init is called at most once per execution, with exactly the
\* arguments repo_owner = "dharsourav03", repo_name =
\* "MLOPS-MINI-PROJECT-V3", mlflow = TRUE, and the binding it leaves is
\* that one.
C7_InitArguments ==
    /\ Cardinality(CallsOf("init")) <= 1
    /\ \A i \in CallsOf("init") :
          /\ DOMAIN calls[i].args = {"repo_owner", "repo_name", "mlflow"}
          /\ calls[i].args = TheBinding
    /\ binding \in {<<>>, <<TheBinding>>}
    /\ pc \in {"start_run", "log_param", "log_metric", "exit", "done"} =>
          binding = <<TheBinding>> /\ Cardinality(CallsOf("init")) = 1

C7_Witness ==
    /\ binding = <<TheBinding>>
    /\ Issued("start_run")

\* C8: whenever a run has been opened, or start_run or a logging call has
\* been issued, the destination is set and the binding initialised; and
\* after a failure of set_tracking_uri or dagshub.init the process has
\* ended with no run opened and no start_run or logging call issued.
C8_RunOnlyAfterConfiguration ==
    /\ (run # 0 \/ Issued("start_run") \/ Issued("log_param")
               \/ Issued("log_metric")) =>
          /\ tracking_uri # "unset"
          /\ binding # <<>>
          /\ CallsOf("set_tracking_uri") = {1}
          /\ CallsOf("init") = {2}
    /\ exc \in {"set_tracking_uri", "init"} =>
          /\ pc = "failed"
          /\ run = 0
          /\ RunsOf(executions) = {}
          /\ ~Issued("start_run")
          /\ ~Issued("log_param")
          /\ ~Issued("log_metric")

C8_Witness ==
    /\ pc = "failed"
    /\ exc = "init"
    /\ tracking_uri # "unset"
    /\ runs # <<>>

\* C9: a raised exception propagates at once and nothing recovers from it:
\* in the step that raises, control goes to the exit of the with-block or
\* to the end of the process; from then on the exception stays the same
\* and the only call that follows is the one __exit__ that finalizes the
\* run, and only for a failure inside the with-block.
C9_NoRecoveryNoRetry ==
    [][ (executions' = executions /\ exc' # "none") =>
           /\ pc' \in {"exit", "failed"}
           /\ pc' = "exit" => exc' \in LogOps
           /\ exc # "none" =>
                 /\ exc' = exc
                 /\ pc' = "failed"
                 /\ \/ calls' = calls
                    \/ /\ pc = "exit"
                       /\ exc \in LogOps
                       /\ calls' = Append(calls, [op |-> "__exit__", args |-> exc]) ]_vars

C9_Witness ==
    /\ pc = "failed"
    /\ exc = "log_param"
    /\ calls[Len(calls)].op = "__exit__"
    /\ ~Issued("log_metric")
    /\ Cardinality(CallsOf("log_param")) = 1

\* C10: every execution that has started reaches "done" or "failed"; in
\* such a state the run is not-started or finalized, never open; and the
\* lifecycle of a run only moves forward through not-started, open,
\* finalized.
C10_TerminatesWithRunClosed ==
    /\ (pc \notin Terminal) ~> (pc \in Terminal)
    /\ [](pc \in Terminal => Scope \in {"not-started", "finalized"})
    /\ [][ /\ executions' = executions => ScopeRank(Scope') >= ScopeRank(Scope)
           /\ \A i \in DOMAIN runs :
                 /\ i \in DOMAIN runs'
                 /\ StatusRank(runs'[i].status) >= StatusRank(runs[i].status) ]_vars

C10_Witness ==
    /\ pc = "failed"
    /\ exc = "start_run"
    /\ Scope = "not-started"
    /\ \E i \in DOMAIN runs : runs[i].status # "RUNNING"

====
